---- MODULE Spec2Model ----
(***************************************************************************)
(* Hybrid search of upstash-semantic-search: parameter parsing, the        *)
(* lexical page, the semantic fallback with its positional score           *)
(* thresholds, the merge in the page handler and the pagination hrefs.     *)
(*                                                                         *)
(* Strings are sequences of one-character strings.  Scores are hundredths  *)
(* (0.5 is 50, 0.15 is 15) and the thresholds are computed in exact        *)
(* decimal arithmetic; the rounding of binary floating point at an exact   *)
(* tie of score and threshold is not modelled.                             *)
(***************************************************************************)
EXTENDS Integers, Sequences, FiniteSets, TLC

\* ------------------------------------------------------------------ bounds
\* rows in the apartment table
MaxRows == 4
\* largest page number a request asks for
MaxPage == 2
\* records a mock of the index answers to the filter
MaxRes == 4
\* characters of a raw query text
MaxText == 2
\* characters of a raw page parameter
MaxPageLen == 2

\* --------------------------------------------------------------- constants
PAGE_SIZE == 3
ABSOLUTE_MIN == 50
SCORE_DROP_TOLERANCE == 15
RANK_INCREMENT == 10

\* ----------------------------------------------------------------- helpers
Min(a, b) == IF a <= b THEN a ELSE b
Max(a, b) == IF a >= b THEN a ELSE b

\* Array.prototype.slice(0, n)
Slice(s, n) == SubSeq(s, 1, Min(n, Len(s)))

\* JavaScript values: undefined, null, a string, an array of strings
Undefined == [kind |-> "undefined"]
Null == [kind |-> "null"]
Str(s) == [kind |-> "string", str |-> s]
Arr(a) == [kind |-> "array", elems |-> a]

IsString(v) == v.kind = "string"

Digits == <<"0", "1", "2", "3", "4", "5", "6", "7", "8", "9">>
IsDigit(c) == \E d \in 1..10 : Digits[d] = c
DigitVal(c) == (CHOOSE d \in 1..10 : Digits[d] = c) - 1
IsSpace(c) == c = " "

\* String.prototype.trim()
RECURSIVE TrimStart(_)
TrimStart(s) == IF s # <<>> /\ IsSpace(Head(s)) THEN TrimStart(Tail(s)) ELSE s
RECURSIVE TrimEnd(_)
TrimEnd(s) ==
  IF s # <<>> /\ IsSpace(s[Len(s)]) THEN TrimEnd(SubSeq(s, 1, Len(s) - 1)) ELSE s
Trim(s) == TrimEnd(TrimStart(s))

\* /^\d+$/.test(s)
AllDigits(s) == s # <<>> /\ \A i \in 1..Len(s) : IsDigit(s[i])

\* parseInt(s, 10) of a string of digits
RECURSIVE ParseInt(_)
ParseInt(s) ==
  IF s = <<>> THEN 0 ELSE 10 * ParseInt(SubSeq(s, 1, Len(s) - 1)) + DigitVal(s[Len(s)])

\* String(n) of an integer n >= 0
RECURSIVE NumToString(_)
NumToString(n) ==
  IF n < 10 THEN <<Digits[n + 1]>> ELSE Append(NumToString(n \div 10), Digits[(n % 10) + 1])

\* ------------------------------------------------------------- parseParams
\* ParseQuery without the trim
ParseQueryNoTrim(v) ==
  LET rawQ == IF IsString(v) THEN v.str
              ELSE IF v.kind = "array"
                   THEN (IF v.elems = <<>> THEN <<>> ELSE v.elems[1])
                   ELSE <<>>
  IN IF Len(rawQ) > 0 THEN Str(rawQ) ELSE Null

\* query: the first value of an array, trimmed; null when nothing is left
ParseQuery(v) ==
  LET rawQ == IF IsString(v) THEN Trim(v.str)
              ELSE IF v.kind = "array"
                   THEN (IF v.elems = <<>> THEN <<>> ELSE Trim(v.elems[1]))
                   ELSE <<>>
  IN IF Len(rawQ) > 0 THEN Str(rawQ) ELSE Null

\* ParsePage that lets page 0 through
ParsePageFromZero(v) ==
  LET rawPage == IF IsString(v) THEN v.str ELSE <<>>
      parsedPage == IF AllDigits(rawPage) THEN ParseInt(rawPage) ELSE 1
  IN IF parsedPage >= 0 THEN parsedPage ELSE 1

\* page: must be a positive integer
ParsePage(v) ==
  LET rawPage == IF IsString(v) THEN v.str ELSE <<>>
      parsedPage == IF AllDigits(rawPage) THEN ParseInt(rawPage) ELSE 1
  IN IF parsedPage >= 1 THEN parsedPage ELSE 1

\* semanticSearch toggle
ParseSemantic(v) == v = Str(<<"1">>)

parseParams(raw) ==
  [q |-> ParseQuery(raw.query),
   page |-> ParsePage(raw.page),
   semanticSearch |-> ParseSemantic(raw.semanticSearch)]

\* ------------------------------------------------------------- fetchFromDb
\* q.trim().split(/\s+/).filter(Boolean): the words of q
RECURSIVE Tokens(_)
Tokens(s) ==
  LET t == TrimStart(s)
      n == IF \E i \in 1..Len(t) : IsSpace(t[i])
           THEN (CHOOSE i \in 1..Len(t) : IsSpace(t[i]) /\ \A j \in 1..(i - 1) : ~IsSpace(t[j])) - 1
           ELSE Len(t)
  IN IF t = <<>> THEN {} ELSE {SubSeq(t, 1, n)} \cup Tokens(SubSeq(t, n + 1, Len(t)))

\* to_tsvector(name || ' ' || description) @@ to_tsquery(w1 & w2 & ...):
\* every word of the query is a word of the row; without q every row matches
Matches(q, row) == q = Null \/ Tokens(q.str) \subseteq row.words

\* the rows the WHERE clause keeps, in the order of the store
Matching(tbl, q) == SelectSeq(tbl, LAMBDA row : Matches(q, row))

fetchFromDb(tbl, q, page) ==
  LET fetchLimit == PAGE_SIZE + 1
      offset == (page - 1) * PAGE_SIZE
      all == Matching(tbl, q)
      \* count(*) OVER () is attached to every returned row
      rows == [i \in 1..Max(0, Min(fetchLimit, Len(all) - offset)) |->
                 [id |-> all[offset + i].id, total |-> Len(all)]]
      dbTotal == IF Len(rows) > 0 THEN rows[1].total ELSE 0
  IN [rows |-> rows, dbTotal |-> dbTotal, limit |-> fetchLimit, offset |-> offset]

\* --------------------------------------------------- fetchSemanticFallback
\* a record of the index answers without a score: r.score is undefined
NoScore == -1

\* isApartmentMetadata that forgets the price
isApartmentMetadataNoPrice(val) ==
  /\ val.kind = "object"
  /\ val.id.kind = "string"
  /\ val.name = "string"
  /\ val.imageId = "string"

isApartmentMetadata(val) ==
  /\ val.kind = "object"
  /\ val.id.kind = "string"
  /\ val.name = "string"
  /\ val.imageId = "string"
  /\ val.price = "number"

\* r.score >= t: false when r.score is undefined
ScoreAtLeast(score, t) == score # NoScore /\ score >= t

\* Threshold without the rise per position
ThresholdFlat(baseMin, i) == Min(100, baseMin)

\* the threshold of the candidate at 0-based position i
Threshold(baseMin, i) == Min(100, baseMin + i * RANK_INCREMENT)

\* BaseMin without the absolute floor
BaseMinNoFloor(bestScore) == bestScore - SCORE_DROP_TOLERANCE

BaseMin(bestScore) == Max(ABSOLUTE_MIN, bestScore - SCORE_DROP_TOLERANCE)

\* the candidates that are not excluded and pass the shape guard
Valid(res, existingIds) ==
  SelectSeq(res, LAMBDA r : ~(r.id \in existingIds) /\ isApartmentMetadata(r.metadata))

RECURSIVE KeepFrom(_, _, _)
KeepFrom(valid, i, baseMin) ==
  IF i >= Len(valid) THEN <<>>
  ELSE (IF ScoreAtLeast(valid[i + 1].score, Threshold(baseMin, i))
        THEN <<valid[i + 1]>> ELSE <<>>) \o KeepFrom(valid, i + 1, baseMin)

\* the records of the index answer that survive, in the order received
Survivors(res, existingIds) ==
  LET valid == Valid(res, existingIds)
      bestScore == IF valid[1].score = NoScore THEN 0 ELSE valid[1].score
  IN IF Len(valid) = 0 THEN <<>> ELSE KeepFrom(valid, 0, BaseMin(bestScore))

\* .map(({ r }) => r.metadata as Apartment)
fetchSemanticFallback(res, existingIds) ==
  LET kept == Survivors(res, existingIds)
  IN [i \in 1..Len(kept) |-> [id |-> kept[i].metadata.id.str]]

\* --------------------------------------------------------------- buildHref
\* the application/x-www-form-urlencoded byte serializer of URLSearchParams:
\* letters, digits and * - . _ stay, a space becomes +, the rest is %XX
PercentCodes ==
  << <<" ", "2", "0">>, <<"%", "2", "5">>, <<"&", "2", "6">>, <<"+", "2", "B">>,
     <<"=", "3", "D">>, <<"/", "2", "F">>, <<"?", "3", "F">> >>

IsEscaped(c) == \E k \in 1..Len(PercentCodes) : PercentCodes[k][1] = c

EncodeChar(c) ==
  IF c = " " THEN <<"+">>
  ELSE IF IsEscaped(c)
       THEN LET code == PercentCodes[CHOOSE k \in 1..Len(PercentCodes) : PercentCodes[k][1] = c]
            IN <<"%", code[2], code[3]>>
       ELSE <<c>>

\* Encode that writes the text as it is
EncodeRaw(s) == s

RECURSIVE Encode(_)
Encode(s) == IF s = <<>> THEN <<>> ELSE EncodeChar(Head(s)) \o Encode(Tail(s))

\* URLSearchParams.prototype.toString()
RECURSIVE Serialize(_)
Serialize(pairs) ==
  IF pairs = <<>> THEN <<>>
  ELSE Encode(pairs[1][1]) \o <<"=">> \o Encode(pairs[1][2])
       \o (IF Len(pairs) > 1 THEN <<"&">> \o Serialize(Tail(pairs)) ELSE <<>>)

KeyQuery == <<"q", "u", "e", "r", "y">>
KeySemantic == <<"s", "e", "m", "a", "n", "t", "i", "c", "S", "e", "a", "r", "c", "h">>
KeyPage == <<"p", "a", "g", "e">>

\* if (q): a string that is not empty
Truthy(q) == q.kind = "string" /\ q.str # <<>>

buildHref(p, q, semanticSearch) ==
  LET qs == Serialize((IF Truthy(q) THEN << <<KeyQuery, q.str>> >> ELSE <<>>)
                      \o (IF semanticSearch THEN << <<KeySemantic, <<"1">> >> >> ELSE <<>>)
                      \o (IF p > 1 THEN << <<KeyPage, NumToString(p)>> >> ELSE <<>>))
  IN IF qs # <<>> THEN <<"/", "?">> \o qs ELSE <<"/">>

\* ------------------------------------------------ the href as a request
\* the pieces of s between the separators sep
RECURSIVE Split(_, _)
Split(s, sep) ==
  IF \E i \in 1..Len(s) : s[i] = sep
  THEN LET i == CHOOSE k \in 1..Len(s) : s[k] = sep /\ \A j \in 1..(k - 1) : s[j] # sep
       IN <<SubSeq(s, 1, i - 1)>> \o Split(SubSeq(s, i + 1, Len(s)), sep)
  ELSE <<s>>

IsCode(a, b) == \E k \in 1..Len(PercentCodes) : PercentCodes[k][2] = a /\ PercentCodes[k][3] = b

\* form decoding: + is a space, %XX is the character with that code
RECURSIVE Decode(_)
Decode(s) ==
  IF s = <<>> THEN <<>>
  ELSE IF s[1] = "+" THEN <<" ">> \o Decode(Tail(s))
  ELSE IF s[1] = "%" /\ Len(s) >= 3 /\ IsCode(s[2], s[3])
       THEN <<PercentCodes[CHOOSE k \in 1..Len(PercentCodes) :
                             PercentCodes[k][2] = s[2] /\ PercentCodes[k][3] = s[3]][1]>>
            \o Decode(SubSeq(s, 4, Len(s)))
  ELSE <<s[1]>> \o Decode(Tail(s))

\* name and value of one piece name=value of the query string
PairOf(piece) ==
  IF \E i \in 1..Len(piece) : piece[i] = "="
  THEN LET i == CHOOSE k \in 1..Len(piece) : piece[k] = "=" /\ \A j \in 1..(k - 1) : piece[j] # "="
       IN <<Decode(SubSeq(piece, 1, i - 1)), Decode(SubSeq(piece, i + 1, Len(piece)))>>
  ELSE <<Decode(piece), <<>> >>

\* the pairs of the query string of an href
QueryPairs(href) ==
  LET parts == Split(href, "?")
      qs == IF Len(parts) > 1 THEN SubSeq(href, Len(parts[1]) + 2, Len(href)) ELSE <<>>
      pieces == SelectSeq(Split(qs, "&"), LAMBDA pc0 : pc0 # <<>>)
  IN [i \in 1..Len(pieces) |-> PairOf(pieces[i])]

\* one key of searchParams: undefined, the value, or the array of the values
ParamOf(pairs, key) ==
  LET vals == SelectSeq(pairs, LAMBDA pr : pr[1] = key)
  IN IF Len(vals) = 0 THEN Undefined
     ELSE IF Len(vals) = 1 THEN Str(vals[1][2])
     ELSE Arr([i \in 1..Len(vals) |-> vals[i][2]])

\* the searchParams of the request that follows the href
SearchParamsOf(href) ==
  LET pairs == QueryPairs(href)
  IN [query |-> ParamOf(pairs, KeyQuery),
      page |-> ParamOf(pairs, KeyPage),
      semanticSearch |-> ParamOf(pairs, KeySemantic)]

\* -------------------------------------------------------------------- Home
\* Merge with the semantic extras in front of the rows
MergeExtrasFirst(rows, dbTotal, semanticExtras) ==
  LET combined == semanticExtras \o [i \in 1..Len(rows) |-> [id |-> rows[i].id]]
  IN [items |-> Slice(combined, PAGE_SIZE),
      hasNext |-> Len(combined) > PAGE_SIZE,
      total |-> dbTotal + Len(semanticExtras)]

\* lines 44-50 of the page handler: merge, paginate, compute totals
Merge(rows, dbTotal, semanticExtras) ==
  LET combined == [i \in 1..Len(rows) |-> [id |-> rows[i].id]] \o semanticExtras
  IN [items |-> Slice(combined, PAGE_SIZE),
      hasNext |-> Len(combined) > PAGE_SIZE,
      total |-> dbTotal + Len(semanticExtras)]

\* Gate with the full page let through
GateFullPage(params, rows) ==
  params.semanticSearch /\ params.q # Null /\ Len(rows) <= PAGE_SIZE

\* semanticSearch && q && rows.length < PAGE_SIZE
Gate(params, rows) ==
  params.semanticSearch /\ params.q # Null /\ Len(rows) < PAGE_SIZE

\* new Set(rows.map((r) => r.id))
ExistingIds(rows) == {rows[i].id : i \in 1..Len(rows)}

\* index.query({ data: q, topK, includeMetadata: true })
IndexQuery(idx, q, topK) == Slice(idx, topK)

\* the page the handler renders for params when no collaborator fails
HomeResult(tbl, idx, params) ==
  LET db == fetchFromDb(tbl, params.q, params.page)
      extras == IF Gate(params, db.rows)
                THEN fetchSemanticFallback(IndexQuery(idx, params.q, PAGE_SIZE),
                                           ExistingIds(db.rows))
                ELSE <<>>
  IN Merge(db.rows, db.dbTotal, extras)

\* ------------------------------------------------------------------- state
VARIABLES
  table,           \* the apartment table, in the order of the store
  vectorIndex,     \* what the index answers to the query text, best first
  pc,              \* where the page handler stands
  raw,             \* the searchParams of the request
  params,          \* parseParams(raw)
  rows,            \* rows of fetchFromDb
  dbTotal,         \* dbTotal of fetchFromDb
  existingIds,     \* the ids handed to fetchSemanticFallback
  admitted,        \* the index records that passed the thresholds
  semanticExtras,  \* what fetchSemanticFallback returned, or []
  result,          \* items, hasNext, total
  dbCalls,         \* queries sent to the store in this request
  indexCalls,      \* queries sent to the index in this request
  target,          \* the page number a pagination link is built for
  href,            \* buildHref(target, q, semanticSearch)
  followed,        \* parseParams of the request that follows href
  handler,         \* the page handler that sent a query to the store
  sentLimit,       \* the limit of that query
  sentOffset       \* the offset of that query

vars == <<table, vectorIndex, pc, raw, params, rows, dbTotal, existingIds, admitted,
          semanticExtras, result, dbCalls, indexCalls, target, href, followed,
          handler, sentLimit, sentOffset>>

queryVars == <<handler, sentLimit, sentOffset>>

linkVars == <<target, href, followed>>

\* ------------------------------------------------------------------ inputs
RowId(i) == NumToString(i)

\* n rows; the first h of them carry the word "a"
TableWith(n, h) ==
  [i \in 1..n |-> [id |-> RowId(i), words |-> IF i <= h THEN {<<"a">>} ELSE {<<"b">>}]]

Tables == {TableWith(n, h) : n \in 0..MaxRows, h \in 0..MaxRows}

GoodMeta(id) ==
  [kind |-> "object", id |-> Str(id), name |-> "string", imageId |-> "string",
   price |-> "number"]
\* JSON null in place of the metadata
NullMeta == [kind |-> "null"]
\* price stored as text: fails the guard
BadMeta(id) ==
  [kind |-> "object", id |-> Str(id), name |-> "string", imageId |-> "string",
   price |-> "string"]

Cand(id, metadata, score) == [id |-> id, metadata |-> metadata, score |-> score]

\* records the index may hold: copies of table rows, records whose metadata
\* carries another id than the record, records of apartments that are not in
\* the table, low scores, a missing score, metadata of the wrong shape
Candidates ==
  { Cand(<<"1">>, GoodMeta(<<"1">>), 90),
    Cand(<<"9">>, GoodMeta(<<"1">>), 90),
    Cand(<<"9">>, GoodMeta(<<"9">>), 90),
    Cand(<<"8">>, GoodMeta(<<"8">>), 95),
    Cand(<<"8">>, GoodMeta(<<"8">>), 60),
    Cand(<<"9">>, GoodMeta(<<"9">>), 40),
    Cand(<<"9">>, GoodMeta(<<"9">>), NoScore),
    Cand(<<"1">>, GoodMeta(<<"1">>), 40),
    Cand(<<"7">>, BadMeta(<<"7">>), 90),
    Cand(<<"7">>, NullMeta, 90) }

SeqsUpTo(S, n) == UNION {[1..k -> S] : k \in 0..n}

\* the index answers at most topK = PAGE_SIZE records
IndexAnswers == SeqsUpTo(Candidates, PAGE_SIZE)

RawQueries == {Undefined, Str(<<"a">>)}
RawPages == {Undefined} \cup {Str(NumToString(n)) : n \in 2..MaxPage}
RawSemantic == {Undefined, Str(<<"1">>)}
RawParams == [query : RawQueries, page : RawPages, semanticSearch : RawSemantic]

NoParams == [q |-> Null, page |-> 1, semanticSearch |-> FALSE]
NoResult == [items |-> <<>>, hasNext |-> FALSE, total |-> 0]

\* ----------------------------------------------------------------- actions
Init ==
  /\ handler = "none"
  /\ sentLimit = 0
  /\ sentOffset = 0
  /\ target = 1
  /\ href = <<>>
  /\ followed = NoParams
  /\ table \in Tables
  /\ vectorIndex \in IndexAnswers
  /\ pc = "idle"
  /\ raw = [query |-> Undefined, page |-> Undefined, semanticSearch |-> Undefined]
  /\ params = NoParams
  /\ rows = <<>>
  /\ dbTotal = 0
  /\ existingIds = {}
  /\ admitted = <<>>
  /\ semanticExtras = <<>>
  /\ result = NoResult
  /\ dbCalls = 0
  /\ indexCalls = 0

\* a request arrives: parseParams, then the query is sent to the store
Request(r) ==
  /\ UNCHANGED queryVars
  /\ UNCHANGED linkVars
  /\ pc = "idle"
  /\ raw' = r
  /\ params' = parseParams(r)
  /\ dbCalls' = dbCalls + 1
  /\ pc' = "db"
  /\ UNCHANGED <<table, vectorIndex, rows, dbTotal, existingIds, admitted,
                 semanticExtras, result, indexCalls>>

\* the store answers; the handler either queries the index or finishes
DbReply ==
  /\ UNCHANGED queryVars
  /\ UNCHANGED linkVars
  /\ pc = "db"
  /\ LET db == fetchFromDb(table, params.q, params.page)
     IN /\ rows' = db.rows
        /\ dbTotal' = db.dbTotal
        /\ IF Gate(params, db.rows)
           THEN /\ indexCalls' = indexCalls + 1
                /\ existingIds' = ExistingIds(db.rows)
                /\ pc' = "index"
                /\ UNCHANGED <<semanticExtras, result>>
           ELSE /\ semanticExtras' = <<>>
                /\ result' = Merge(db.rows, db.dbTotal, <<>>)
                /\ pc' = "done"
                /\ UNCHANGED <<indexCalls, existingIds>>
  /\ UNCHANGED <<table, vectorIndex, raw, params, admitted, dbCalls>>

\* DbFail that sends the query once more
DbFailRetry ==
  /\ UNCHANGED queryVars
  /\ UNCHANGED linkVars
  /\ pc = "db"
  /\ dbCalls < 2
  /\ dbCalls' = dbCalls + 1
  /\ UNCHANGED <<table, vectorIndex, pc, raw, params, rows, dbTotal, existingIds, admitted,
                 semanticExtras, result, indexCalls>>

\* the store fails: the rejection leaves the handler
DbFail ==
  /\ UNCHANGED queryVars
  /\ UNCHANGED linkVars
  /\ pc = "db"
  /\ pc' = "failed"
  /\ UNCHANGED <<table, vectorIndex, raw, params, rows, dbTotal, existingIds, admitted,
                 semanticExtras, result, dbCalls, indexCalls>>

\* the index answers: filter, merge, render
IndexReply ==
  /\ UNCHANGED queryVars
  /\ UNCHANGED linkVars
  /\ pc = "index"
  /\ LET res == IndexQuery(vectorIndex, params.q, PAGE_SIZE)
         extras == fetchSemanticFallback(res, existingIds)
     IN /\ admitted' = Survivors(res, existingIds)
        /\ semanticExtras' = extras
        /\ result' = Merge(rows, dbTotal, extras)
  /\ pc' = "done"
  /\ UNCHANGED <<table, vectorIndex, raw, params, rows, dbTotal, existingIds, dbCalls,
                 indexCalls>>

\* the index fails: the rejection leaves the handler
IndexFail ==
  /\ UNCHANGED queryVars
  /\ UNCHANGED linkVars
  /\ pc = "index"
  /\ pc' = "failed"
  /\ UNCHANGED <<table, vectorIndex, raw, params, rows, dbTotal, existingIds, admitted,
                 semanticExtras, result, dbCalls, indexCalls>>

\* the response is sent; the next request starts from nothing
Finish ==
  /\ UNCHANGED queryVars
  /\ UNCHANGED linkVars
  /\ pc \in {"done", "failed"}
  /\ pc' = "idle"
  /\ raw' = [query |-> Undefined, page |-> Undefined, semanticSearch |-> Undefined]
  /\ params' = NoParams
  /\ rows' = <<>>
  /\ dbTotal' = 0
  /\ existingIds' = {}
  /\ admitted' = <<>>
  /\ semanticExtras' = <<>>
  /\ result' = NoResult
  /\ dbCalls' = 0
  /\ indexCalls' = 0
  /\ UNCHANGED <<table, vectorIndex>>

Next ==
  \/ \E r \in RawParams : Request(r)
  \/ DbReply
  \/ DbFail
  \/ IndexReply
  \/ IndexFail
  \/ Finish

Spec == Init /\ [][Next]_vars

\* ------------------------------------------ the filter on a mocked index
\* records a mock hands to fetchSemanticFallback: a copy of row 1, an
\* apartment that is not among the rows, a record of the wrong shape
FilterScores == {30, 85, 90, 95}
FilterCandidates ==
  UNION { { Cand(<<"1">>, GoodMeta(<<"1">>), sc),
            Cand(<<"9">>, GoodMeta(<<"9">>), sc),
            Cand(<<"7">>, BadMeta(<<"7">>), sc) } : sc \in FilterScores }
    \cup {Cand(<<"7">>, NullMeta, 90)}

InitFilter ==
  /\ handler = "none"
  /\ sentLimit = 0
  /\ sentOffset = 0
  /\ target = 1
  /\ href = <<>>
  /\ followed = NoParams
  /\ table = <<>>
  /\ vectorIndex \in SeqsUpTo(FilterCandidates, MaxRes)
  /\ pc = "call"
  /\ raw = [query |-> Undefined, page |-> Undefined, semanticSearch |-> Undefined]
  /\ params = NoParams
  /\ rows = <<>>
  /\ dbTotal = 0
  /\ existingIds \in {{}, {<<"1">>}}
  /\ admitted = <<>>
  /\ semanticExtras = <<>>
  /\ result = NoResult
  /\ dbCalls = 0
  /\ indexCalls = 0

\* fetchSemanticFallback(index, q, existingIds) with index.query mocked
FilterCall ==
  /\ UNCHANGED queryVars
  /\ UNCHANGED linkVars
  /\ pc = "call"
  /\ admitted' = Survivors(vectorIndex, existingIds)
  /\ semanticExtras' = fetchSemanticFallback(vectorIndex, existingIds)
  /\ indexCalls' = indexCalls + 1
  /\ pc' = "returned"
  /\ UNCHANGED <<table, vectorIndex, raw, params, rows, dbTotal, existingIds, result,
                 dbCalls>>

NextFilter == FilterCall

SpecFilter == InitFilter /\ [][NextFilter]_vars

\* ------------------------------------- parameters and pagination links
TextChars == {"a", " ", "&", "=", "+", "%"}
PageChars == {"0", "1", "2", "-", ".", "x"}

\* raw values of the key query: absent, a string, an array of strings
QueryValues ==
  {Undefined}
    \cup {Str(t) : t \in SeqsUpTo(TextChars, MaxText)}
    \cup {Arr(a) : a \in SeqsUpTo({<<>>, <<" ">>, <<"a">>, <<" ", "a", " ">>}, 2)}

\* raw values of the key page
PageValues ==
  {Undefined, Arr(<<<<"2">>, <<"1">>>>)} \cup {Str(t) : t \in SeqsUpTo(PageChars, MaxPageLen)}

\* raw values of the key semanticSearch
SemanticValues ==
  {Undefined, Str(<<"1">>), Str(<<>>), Str(<<"t", "r", "u", "e">>), Arr(<<<<"1">>, <<"1">>>>)}

InitParams ==
  /\ handler = "none"
  /\ sentLimit = 0
  /\ sentOffset = 0
  /\ raw \in [query : QueryValues, page : PageValues, semanticSearch : SemanticValues]
  /\ pc = "raw"
  /\ params = NoParams
  /\ target = 1
  /\ href = <<>>
  /\ followed = NoParams
  /\ table = <<>>
  /\ vectorIndex = <<>>
  /\ rows = <<>>
  /\ dbTotal = 0
  /\ existingIds = {}
  /\ admitted = <<>>
  /\ semanticExtras = <<>>
  /\ result = NoResult
  /\ dbCalls = 0
  /\ indexCalls = 0

homeVars == <<table, vectorIndex, rows, dbTotal, existingIds, admitted, semanticExtras,
              result, dbCalls, indexCalls>>

\* parseParams(await searchParams)
Parse ==
  /\ UNCHANGED queryVars
  /\ pc = "raw"
  /\ params' = parseParams(raw)
  /\ pc' = "parsed"
  /\ UNCHANGED <<raw, target, href, followed>>
  /\ UNCHANGED homeVars

\* the links of the pagination: previous, current and next page
BuildLink(p) ==
  /\ UNCHANGED queryVars
  /\ pc = "parsed"
  /\ p >= 1
  /\ target' = p
  /\ href' = buildHref(p, params.q, params.semanticSearch)
  /\ pc' = "linked"
  /\ UNCHANGED <<raw, params, followed>>
  /\ UNCHANGED homeVars

\* the link is followed: its query string comes back as searchParams
Follow ==
  /\ UNCHANGED queryVars
  /\ pc = "linked"
  /\ followed' = parseParams(SearchParamsOf(href))
  /\ pc' = "followed"
  /\ UNCHANGED <<raw, params, target, href>>
  /\ UNCHANGED homeVars

NextParams ==
  \/ Parse
  \/ \E p \in {params.page - 1, params.page, params.page + 1} : BuildLink(p)
  \/ Follow

SpecParams == InitParams /\ [][NextParams]_vars

\* ------------------------------------------- the queries of both handlers
\* src/app/page.tsx, the handler with the query inline
pageSize == 3

\* q of src/app/page.tsx: a string that is not blank, trimmed
AppPageQuery(v) ==
  IF IsString(v) /\ Trim(v.str) # <<>> THEN Str(Trim(v.str)) ELSE Null

\* pageNum of src/app/page.tsx
AppPageNum(v) ==
  IF IsString(v) /\ AllDigits(v.str) THEN ParseInt(v.str) ELSE 1

InitPages ==
  /\ raw \in [query : RawQueries, page : PageValues, semanticSearch : {Undefined}]
  /\ pc = "request"
  /\ handler = "none"
  /\ sentLimit = 0
  /\ sentOffset = 0
  /\ params = NoParams
  /\ target = 1
  /\ href = <<>>
  /\ followed = NoParams
  /\ table = <<>>
  /\ vectorIndex = <<>>
  /\ rows = <<>>
  /\ dbTotal = 0
  /\ existingIds = {}
  /\ admitted = <<>>
  /\ semanticExtras = <<>>
  /\ result = NoResult
  /\ dbCalls = 0
  /\ indexCalls = 0

\* Home with lib/search.ts: parseParams, then fetchFromDb sends limit and offset
HomeSendsQuery ==
  /\ pc = "request"
  /\ params' = parseParams(raw)
  /\ LET db == fetchFromDb(table, params'.q, params'.page)
     IN /\ sentLimit' = db.limit
        /\ sentOffset' = db.offset
  /\ handler' = "search"
  /\ dbCalls' = dbCalls + 1
  /\ pc' = "sent"
  /\ UNCHANGED <<raw, table, vectorIndex, rows, dbTotal, existingIds, admitted,
                 semanticExtras, result, indexCalls>>
  /\ UNCHANGED linkVars

\* Home of src/app/page.tsx: parses the parameters and sends the query itself
AppPageSendsQuery ==
  /\ pc = "request"
  /\ LET q == AppPageQuery(raw.query)
         pageNum == AppPageNum(raw.page)
         fetchLimit == pageSize + 1
         offset == (pageNum - 1) * pageSize
     IN /\ params' = [q |-> q, page |-> pageNum, semanticSearch |-> FALSE]
        /\ sentLimit' = fetchLimit
        /\ sentOffset' = offset
  /\ handler' = "app"
  /\ dbCalls' = dbCalls + 1
  /\ pc' = "sent"
  /\ UNCHANGED <<raw, table, vectorIndex, rows, dbTotal, existingIds, admitted,
                 semanticExtras, result, indexCalls>>
  /\ UNCHANGED linkVars

NextPages ==
  \/ HomeSendsQuery
  \/ AppPageSendsQuery

SpecPages == InitPages /\ [][NextPages]_vars

\* ------------------------------------------------------------------ claims
\* the request has its lexical rows and has decided about the fallback
Decided == pc \in {"index", "done"} \/ (pc = "failed" /\ indexCalls > 0)

TextPresent == params.q.kind = "string"

\* the semantic extras that are among the items of the page
ExtrasOnPage ==
  {i \in 1..Len(result.items) : i > Len(rows)}

\* C1: the vector index is queried if and only if semantic search is on, the
\* normalized text is present and the lexical call returned fewer than
\* PAGE_SIZE rows; with PAGE_SIZE rows or more it is queried zero times.
C1_FallbackGate ==
  /\ indexCalls \in {0, 1}
  /\ pc \in {"idle", "db"} => indexCalls = 0
  /\ Decided =>
       (indexCalls = 1 <=> (params.semanticSearch /\ TextPresent /\ Len(rows) < 3))
  /\ (Decided /\ Len(rows) >= 3) => indexCalls = 0

C1_Witness ==
  /\ pc = "done"
  /\ indexCalls = 1
  /\ params.semanticSearch
  /\ Len(rows) = 2
  /\ Len(semanticExtras) > 0

\* C2: no identifier of a lexical row appears a second time in the items of
\* the page, whatever the index answers.
C2_NoDuplicateOfLexicalRow ==
  pc = "done" =>
    \A i \in ExtrasOnPage : \A j \in 1..Len(rows) : result.items[i].id # rows[j].id

\* C3: total is the lexical total plus the number of semantic extras that
\* are among the items of the page.
C3_TotalCountsExtrasOnPage ==
  pc = "done" => result.total = dbTotal + Cardinality(ExtrasOnPage)

\* C4: for a lexical page of n < PAGE_SIZE rows the filter returns at most
\* PAGE_SIZE - n semantic items.
C4_ExtrasWithinShortfall ==
  (pc = "done" /\ indexCalls = 1) => Len(semanticExtras) <= 3 - Len(rows)

\* C5: hasNext is true if and only if the next page, for the same text and
\* flag against the same store and index, has at least one item.
C5_HasNextIffNextPageNonEmpty ==
  pc = "done" =>
    (result.hasNext <=>
       Len(HomeResult(table, vectorIndex, [params EXCEPT !.page = @ + 1]).items) > 0)

\* C6: the lexical total is the number of all table rows that match the
\* text, for every page, also a page that lies behind the last match.
C6_TotalMatchingOnEveryPage ==
  pc \in {"index", "done"} =>
    dbTotal = Cardinality({i \in 1..Len(table) : Matches(params.q, table[i])})

\* C8: no record of the index with a score below 0.5, or without a score, is
\* admitted to the semantic extras or to the items of the page.
C8_NothingBelowAbsoluteMin ==
  (pc = "done" /\ indexCalls = 1) =>
    /\ Len(semanticExtras) = Len(admitted)
    /\ \A i \in 1..Len(admitted) :
         /\ admitted[i].score # NoScore
         /\ admitted[i].score >= 50
         /\ semanticExtras[i].id = admitted[i].metadata.id.str
    /\ \A i \in ExtrasOnPage : result.items[i] = semanticExtras[i - Len(rows)]

C8_Witness ==
  /\ pc = "done"
  /\ indexCalls = 1
  /\ Len(vectorIndex) = 3
  /\ vectorIndex[1].score = 40
  /\ vectorIndex[2].score = NoScore
  /\ ~(vectorIndex[1].id \in existingIds)
  /\ Len(admitted) = 1

\* the candidates left after the already-seen and the shape-invalid are removed
Remaining == Valid(vectorIndex, existingIds)

\* the 0-based positions among the remaining candidates that the claim keeps
KeptPositions ==
  {i \in 0..(Len(Remaining) - 1) :
     Remaining[i + 1].score >= Min(100, Max(50, Remaining[1].score - 15) + 10 * i)}

\* the j-th kept position, counted from 1
NthKept(j) == CHOOSE p \in KeptPositions : Cardinality({x \in KeptPositions : x < p}) = j - 1

Scores(s) == [i \in 1..Len(s) |-> s[i].score]

\* C7: with bestScore the score of the first remaining candidate and
\* baseMin = max(0.5, bestScore - 0.15), the remaining candidate at 0-based
\* position i is kept exactly when its score >= min(1, baseMin + 0.1 * i), in
\* the order received; of the scores 0.9, 0.95, 0.85, 0.3 the first two survive.
C7_PositionalThreshold ==
  pc = "returned" =>
    /\ Len(admitted) = Cardinality(KeptPositions)
    /\ \A j \in 1..Len(admitted) : admitted[j] = Remaining[NthKept(j) + 1]
    /\ \A j \in 1..Len(admitted) : semanticExtras[j].id = admitted[j].metadata.id.str
    /\ Len(semanticExtras) = Len(admitted)
    /\ Scores(Remaining) = <<90, 95, 85, 30>> => admitted = SubSeq(Remaining, 1, 2)

C7_Witness ==
  /\ pc = "returned"
  /\ Scores(vectorIndex) = <<90, 95, 85, 30>>
  /\ Remaining = vectorIndex
  /\ Scores(admitted) = <<90, 95>>

\* the pairs of the query string of href that carry the key
HrefValues(key) == SelectSeq(QueryPairs(href), LAMBDA pr : pr[1] = key)

DecimalValue(t) ==
  LET d(i) == CHOOSE v \in 0..9 : Digits[v + 1] = t[i]
  IN (IF Len(t) >= 1 THEN d(Len(t)) ELSE 0)
     + (IF Len(t) >= 2 THEN 10 * d(Len(t) - 1) ELSE 0)
     + (IF Len(t) >= 3 THEN 100 * d(Len(t) - 2) ELSE 0)

MatchesDigits(t) ==
  Len(t) >= 1 /\ \A i \in 1..Len(t) : t[i] \in {"0", "1", "2", "3", "4", "5", "6", "7", "8", "9"}

\* C10: a raw page that is absent, an array, no string of digits or a number
\* below 1 gives page 1; a string of digits that parses to n >= 1 gives page
\* n; so the page is always >= 1.
C10_PageNormalized ==
  pc # "raw" =>
    /\ params.page >= 1
    /\ raw.page.kind # "string" => params.page = 1
    /\ raw.page.kind = "string" =>
         IF MatchesDigits(raw.page.str) /\ DecimalValue(raw.page.str) >= 1
         THEN params.page = DecimalValue(raw.page.str)
         ELSE params.page = 1

C10_Witness ==
  /\ pc = "parsed"
  /\ raw.page = Str(<<"0">>)
  /\ params.page = 1

\* the raw text: the string, the first element of a collection, else nothing
FirstText(v) ==
  IF v.kind = "string" THEN v.str
  ELSE IF v.kind = "array" /\ Len(v.elems) > 0 THEN v.elems[1]
  ELSE <<>>

\* t from its first to its last character that is no whitespace
Stripped(t) ==
  LET inked == {i \in 1..Len(t) : t[i] # " "}
  IN IF inked = {} THEN <<>>
     ELSE SubSeq(t, CHOOSE i \in inked : \A j \in inked : i <= j,
                    CHOOSE i \in inked : \A j \in inked : i >= j)

\* C11: the text is the first element of a collection or the string itself,
\* trimmed; it is absent when nothing is left (absent, empty, whitespace
\* only, empty array, blank first element); a present text is never empty
\* and has no whitespace at either end.
C11_TextNormalized ==
  pc # "raw" =>
    /\ params.q = IF Stripped(FirstText(raw.query)) = <<>> THEN Null
                  ELSE Str(Stripped(FirstText(raw.query)))
    /\ params.q # Null =>
         /\ Len(params.q.str) > 0
         /\ params.q.str[1] # " "
         /\ params.q.str[Len(params.q.str)] # " "

C11_Witness ==
  /\ pc = "parsed"
  /\ raw.query = Arr(<< <<" ", "a", " ">>, <<" ">> >>)
  /\ params.q = Str(<<"a">>)

\* the element at position i of the lexical rows followed by the extras
Concatenated(i) ==
  IF i <= Len(rows) THEN [id |-> rows[i].id] ELSE semanticExtras[i - Len(rows)]

ConcatenatedLen == Len(rows) + Len(semanticExtras)

\* C12: items is the first PAGE_SIZE elements of the lexical rows, in store
\* order, followed by the filtered semantic extras, in filter order: at
\* most PAGE_SIZE items, no extra before a lexical row; hasNext is true
\* exactly when that sequence has more than PAGE_SIZE elements.
C12_ItemsArePrefixOfRowsThenExtras ==
  pc = "done" =>
    /\ Len(result.items) = (IF ConcatenatedLen > 3 THEN 3 ELSE ConcatenatedLen)
    /\ \A i \in 1..Len(result.items) : result.items[i] = Concatenated(i)
    /\ result.hasNext <=> ConcatenatedLen > 3
    /\ \A i \in 1..Len(rows) :
         rows[i].id = Matching(table, params.q)[(params.page - 1) * 3 + i].id
    /\ Len(semanticExtras) = Len(admitted)
    /\ \A i \in 1..Len(admitted) : semanticExtras[i].id = admitted[i].metadata.id.str

C12_Witness ==
  /\ pc = "done"
  /\ Len(rows) = 2
  /\ Len(semanticExtras) = 2
  /\ Len(result.items) = 3
  /\ result.hasNext
  /\ result.items[3] = semanticExtras[1]

\* the item shape: an object with a string id, name and imageId and a number price
ItemShaped(m) ==
  m.kind = "object" /\ m.id.kind = "string" /\ m.name = "string"
    /\ m.imageId = "string" /\ m.price = "number"

\* the answer of the index without the records of the wrong shape
WellShaped == SelectSeq(vectorIndex, LAMBDA r : ItemShaped(r.metadata))

\* the well-shaped records that are not already seen
Unseen == SelectSeq(WellShaped, LAMBDA r : ~(r.id \in existingIds))

\* the 0-based positions among Unseen that pass their threshold
UnseenKept ==
  {i \in 0..(Len(Unseen) - 1) :
     Unseen[i + 1].score >= Min(100, Max(50, Unseen[1].score - 15) + 10 * i)}

\* C13: a record whose metadata fails the shape guard is dropped silently:
\* it is never among the extras, the call still returns, the valid records
\* of the same answer are judged as if it were not there, and positions and
\* bestScore are taken over the records left after the guard and the
\* exclusion of the already seen.
C13_InvalidShapeDroppedSilently ==
  pc = "returned" =>
    /\ \A j \in 1..Len(admitted) : ItemShaped(admitted[j].metadata)
    /\ admitted = Survivors(WellShaped, existingIds)
    /\ Len(admitted) = Cardinality(UnseenKept)
    /\ \A j \in 1..Len(admitted) :
         \E i \in UnseenKept :
           /\ Cardinality({x \in UnseenKept : x < i}) = j - 1
           /\ admitted[j] = Unseen[i + 1]
    /\ Len(semanticExtras) = Len(admitted)

C13_Witness ==
  /\ pc = "returned"
  /\ Len(vectorIndex) = 4
  /\ vectorIndex[1].metadata = BadMeta(<<"7">>)
  /\ vectorIndex[1].score = 95
  /\ vectorIndex[2].metadata = NullMeta
  /\ Scores(SubSeq(vectorIndex, 3, 4)) = <<90, 95>>
  /\ admitted = SubSeq(vectorIndex, 3, 4)

\* C14: within one request the store is queried exactly once, the index at
\* most once and only on the step that receives the lexical rows; a failed
\* call is not repeated, no other call follows it and no page is produced:
\* the request ends.
C14_CallsOrderedNoRetry ==
  /\ [](/\ pc = "idle" => (dbCalls = 0 /\ indexCalls = 0)
        /\ pc # "idle" => dbCalls = 1
        /\ indexCalls <= 1
        /\ pc = "db" => indexCalls = 0
        /\ pc = "failed" => result = NoResult)
  /\ [][/\ dbCalls' > dbCalls => (pc = "idle" /\ pc' = "db")
        /\ indexCalls' > indexCalls =>
             /\ pc = "db"
             /\ pc' = "index"
             /\ rows' = fetchFromDb(table, params.q, params.page).rows
        /\ pc = "failed" => (pc' = "idle" /\ dbCalls' = 0 /\ indexCalls' = 0)]_vars

C14_Witness ==
  /\ pc = "failed"
  /\ dbCalls = 1
  /\ indexCalls = 1
  /\ Len(rows) = 2
  /\ result = NoResult

\* C15: in every page handler, for every raw page parameter, the offset sent
\* to the store is (page - 1) * pageSize with page >= 1, so it is never
\* negative, and the limit is pageSize + 1.
C15_OffsetNeverNegative ==
  pc = "sent" =>
    /\ params.page >= 1
    /\ sentOffset = (params.page - 1) * 3
    /\ sentOffset >= 0
    /\ sentLimit = 3 + 1

====
